---- MODULE Spec2Model ----
(***************************************************************************)
(* A model of libcsv: the line splitter and the value converter of         *)
(* src/src/csv_reader.cpp, the reader of src/include/csv_reader.h and      *)
(* src/src/csv_reader.cpp, and the writer of src/include/csv_writer.h and  *)
(* src/src/csv_writer.cpp.                                                 *)
(*                                                                         *)
(* A text (std::string) is a sequence of one-character strings.  Positions *)
(* are 0-based as in the source; size_t arithmetic wraps modulo SizeMod.   *)
(***************************************************************************)
EXTENDS Integers, Sequences, FiniteSets, TLC

VARIABLES
    \* ---- std::ifstream m_filestream of the reader
    fs_content,          \* the bytes of the file
    fs_pos,              \* the get position
    fs_open,             \* is_open()
    fs_eof,              \* eofbit
    fs_fail,             \* failbit
    \* ---- csv::reader
    m_delimiter,
    m_column_names,      \* the catalog
    m_selected_cols,     \* csv_reader.cpp: the selection as a list of indices
    m_selected_mask,     \* csv_reader.h: the selection m_selected_cols as a mask
    m_selected_cols_num, \* csv_reader.h: the count read_row compares the arity to
    \* ---- csv::reader::row
    m_column_values,     \* csv_reader.cpp: the extracted fields of the row
    m_line,              \* csv_reader.h: the line of the row
    m_column_offsets,    \* csv_reader.h: the start offset of every field
    \* ---- the process
    errno,               \* the C library's error indicator
    crashed,             \* an exception left the library (std::terminate)
    \* ---- the last call and what it returned
    call,                \* [op, ret, arg, out]
    exhausted,           \* "no", or "yes" once a row advance has failed for want
                         \* of a data line, or "again" once one more was made
    note,                \* the names of the variadic select_cols that made the
                         \* selection in force, if it returned true and no
                         \* name was given twice
    \* ---- csv::writer
    w_open,
    w_delimiter,
    m_header_written,
    w_column_names,
    w_content,           \* the bytes written to the output file
    w_log                \* what write_row was given: the names the header was
                         \* written from and the rows written

vars == << fs_content, fs_pos, fs_open, fs_eof, fs_fail,
           m_delimiter, m_column_names, m_selected_cols, m_selected_mask,
           m_selected_cols_num, m_column_values, m_line, m_column_offsets,
           errno, crashed, call, exhausted, note,
           w_open, w_delimiter, m_header_written, w_column_names, w_content,
           w_log >>

streamVars == << fs_content, fs_pos, fs_open, fs_eof, fs_fail >>
readerVars == << m_delimiter, m_column_names, m_selected_cols, m_selected_mask,
                 m_selected_cols_num >>
rowVars    == << m_column_values, m_line, m_column_offsets >>
writerVars == << w_open, w_delimiter, m_header_written, w_column_names,
                 w_content, w_log >>

-----------------------------------------------------------------------------
(* Bounds *)

SizeBits   == 16   \* width of size_t in the model (lines are far shorter)
MaxLineLen == 4    \* longest line handed to the splitter on its own
MaxCols    == 3    \* most columns of a header or a data line
MaxRows    == 2    \* most data lines of a file
MaxArgs    == 3    \* most destinations of a read_row call
MaxTextLen == 3    \* longest enumerated text handed to the converter
MaxFields  == 2    \* most columns the writer is given

SizeMod == 2 ^ SizeBits
npos    == SizeMod - 1                      \* std::string::npos

NL == "\n"

Min(S) == CHOOSE x \in S : \A y \in S : x <= y

Distinct(seq) == \A i, j \in DOMAIN seq : seq[i] = seq[j] => i = j

\* All sequences over S of length lo..hi
SeqsOf(S, lo, hi) == UNION { [1..n -> S] : n \in lo..hi }

\* fields joined by the character sep
RECURSIVE Join(_, _)
Join(fields, sep) ==
    IF fields = << >> THEN << >>
    ELSE IF Len(fields) = 1 THEN fields[1]
    ELSE fields[1] \o << sep >> \o Join(Tail(fields), sep)

-----------------------------------------------------------------------------
(* detail::split, src/src/csv_reader.cpp *)

size_add(a, b) == (a + b) % SizeMod
size_sub(a, b) == (a - b + SizeMod) % SizeMod

\* std::count(line.begin(), line.end(), delimiter)
count(line, ch) == Cardinality({ i \in 1..Len(line) : line[i] = ch })

\* std::string::find_first_of(ch, pos)
find_first_of(line, ch, pos) ==
    LET hits == { i \in 0..(Len(line) - 1) : i >= pos /\ line[i + 1] = ch }
    IN  IF hits = {} THEN npos ELSE Min(hits)

\* The first loop of split with count = end_idx - begin_idx, one too many.
RECURSIVE shard_loop_off(_, _, _, _, _, _)
shard_loop_off(line, delimiter, i, num_shards, begin_idx, acc) ==
    IF i >= num_shards THEN acc
    ELSE LET end_idx == find_first_of(line, delimiter, size_add(begin_idx, 1))
         IN  shard_loop_off(line, delimiter, i + 1, num_shards, end_idx,
                 Append(acc, [begin |-> size_add(begin_idx, 1),
                              count |-> size_sub(end_idx, begin_idx)]))

\* The first loop of split: the shard_pos of every field.
RECURSIVE shard_loop(_, _, _, _, _, _)
shard_loop(line, delimiter, i, num_shards, begin_idx, acc) ==
    IF i >= num_shards THEN acc
    ELSE LET end_idx == find_first_of(line, delimiter, size_add(begin_idx, 1))
         IN  shard_loop(line, delimiter, i + 1, num_shards, end_idx,
                 Append(acc, [begin |-> size_add(begin_idx, 1),
                              count |-> size_sub(size_sub(end_idx, begin_idx), 1)]))

num_shards_of(line, delimiter) == count(line, delimiter) + 1

shard_positions(line, delimiter) ==
    shard_loop(line, delimiter, 0, num_shards_of(line, delimiter), npos, << >>)

\* std::string::substr(pos, count): throws std::out_of_range when pos > size()
substr_throws(line, pos) == pos > Len(line)

substr(line, pos, cnt) ==
    LET rlen == IF cnt < Len(line) - pos THEN cnt ELSE Len(line) - pos
    IN  SubSeq(line, pos + 1, pos + rlen)

\* shard_positions[col]: a read past the end of the vector is undefined; oob is
\* the shard_pos such a read yields.
shard_at(positions, col, oob) ==
    IF col < Len(positions) THEN positions[col + 1] ELSE oob

\* split(line, delimiter, select_col)
split_select(line, delimiter, select_col, oob) ==
    LET positions == shard_positions(line, delimiter)
        at(i)     == shard_at(positions, select_col[i], oob)
    IN  [ threw  |-> \E i \in 1..Len(select_col) : substr_throws(line, at(i).begin),
          shards |-> [ i \in 1..Len(select_col) |->
                          IF substr_throws(line, at(i).begin) THEN << >>
                          ELSE substr(line, at(i).begin, at(i).count) ] ]

\* split(line, delimiter): every field, select_col = 0 .. num_shards - 1
split(line, delimiter) ==
    LET n == num_shards_of(line, delimiter)
    IN  split_select(line, delimiter, [ i \in 1..n |-> i - 1 ],
                     [begin |-> 0, count |-> 0]).shards

-----------------------------------------------------------------------------
(* detail::string_to_value(const std::string&, int&), src/src/csv_reader.cpp *)

ERANGE  == "ERANGE"
NoError == "0"

isspace == { " ", "\t", "\n", "\r", "\f" }
isdigit == { "0", "1", "2", "3", "4", "5", "6", "7", "8", "9" }

DigitVal(c) ==
    CASE c = "0" -> 0 [] c = "1" -> 1 [] c = "2" -> 2 [] c = "3" -> 3
      [] c = "4" -> 4 [] c = "5" -> 5 [] c = "6" -> 6 [] c = "7" -> 7
      [] c = "8" -> 8 [] c = "9" -> 9

\* number of characters of str, from 0-based position from on, that are in class
RECURSIVE run_length(_, _, _)
run_length(str, from, class) ==
    IF from < Len(str) /\ str[from + 1] \in class
    THEN 1 + run_length(str, from + 1, class)
    ELSE 0

LONG_MAX_DIGITS == << "9","2","2","3","3","7","2","0","3","6","8","5","4","7","7","5","8","0","7" >>
LONG_MIN_DIGITS == << "9","2","2","3","3","7","2","0","3","6","8","5","4","7","7","5","8","0","8" >>
INT_MAX_DIGITS  == << "2","1","4","7","4","8","3","6","4","7" >>
INT_MIN_DIGITS  == << "2","1","4","7","4","8","3","6","4","8" >>

RECURSIVE strip_zeros(_)
strip_zeros(ds) ==
    IF ds # << >> /\ Head(ds) = "0" THEN strip_zeros(Tail(ds)) ELSE ds

\* a <= b for decimal digit sequences without leading zeros
RECURSIVE digits_le_same_len(_, _)
digits_le_same_len(a, b) ==
    IF a = << >> THEN TRUE
    ELSE IF DigitVal(Head(a)) < DigitVal(Head(b)) THEN TRUE
    ELSE IF DigitVal(Head(a)) > DigitVal(Head(b)) THEN FALSE
    ELSE digits_le_same_len(Tail(a), Tail(b))

digits_le(a, b) ==
    \/ Len(a) < Len(b)
    \/ Len(a) = Len(b) /\ digits_le_same_len(a, b)

\* A 32-bit value as two 16-bit halves, so that no intermediate result leaves
\* the range of 32-bit integer arithmetic.
Half == 2 ^ 16

RECURSIVE horner32(_, _)
horner32(ds, acc) ==
    IF ds = << >> THEN acc
    ELSE LET t == acc.lo * 10 + DigitVal(Head(ds))
         IN  horner32(Tail(ds), [ lo |-> t % Half,
                                  hi |-> (acc.hi * 10 + (t \div Half)) % Half ])

neg32(w) == [ lo |-> (Half - w.lo) % Half,
              hi |-> (Half - 1 - w.hi + (IF w.lo = 0 THEN 1 ELSE 0)) % Half ]

\* static_cast<int> of the low 32 bits
to_int(w) == IF w.hi >= Half \div 2 THEN (w.hi - Half) * Half + w.lo
             ELSE w.hi * Half + w.lo

\* std::strtol(str, &end, 10) on a 64-bit long: the offset of end in str, whether
\* the value is out of range, and the low 32 bits of the value returned.
strtol(str) ==
    LET ws      == run_length(str, 0, isspace)
        signed  == ws < Len(str) /\ str[ws + 1] \in { "+", "-" }
        neg     == ws < Len(str) /\ str[ws + 1] = "-"
        first   == IF signed THEN ws + 1 ELSE ws
        ndigits == run_length(str, first, isdigit)
        ds      == strip_zeros(SubSeq(str, first + 1, first + ndigits))
        range   == ~ digits_le(ds, IF neg THEN LONG_MIN_DIGITS ELSE LONG_MAX_DIGITS)
        mag     == horner32(ds, [ lo |-> 0, hi |-> 0 ])
    IN  [ end   |-> IF ndigits = 0 THEN 0 ELSE first + ndigits,
          range |-> ndigits > 0 /\ range,
          low32 |-> IF ndigits = 0 THEN [ lo |-> 0, hi |-> 0 ]
                    ELSE IF range /\ neg THEN [ lo |-> 0, hi |-> 0 ]
                    ELSE IF range THEN [ lo |-> Half - 1, hi |-> Half - 1 ]
                    ELSE IF neg THEN neg32(mag) ELSE mag ]

\* string_to_value(str, int& val) with the error indicator as it stands before
\* the call: the value stored, the result and the error indicator afterwards.
string_to_value(str, err) ==
    LET r    == strtol(str)
        err2 == IF r.range THEN ERANGE ELSE err
    IN  [ val   |-> to_int(r.low32),
          ret   |-> (r.end = Len(str)) /\ (err2 # ERANGE),
          errno |-> err2 ]

-----------------------------------------------------------------------------
(* Construction: reader::reader(), writer::writer() *)

\* m_selected_cols_num is set by no constructor: it has no value until the
\* variadic select_cols stores one.
Uninit == 0 - 1

NoLog == [ header |-> << >>, rows |-> << >> ]

NoNote == [ args |-> << >>, ret |-> FALSE ]

NoCall == [ op |-> "none", ret |-> FALSE, arg |-> << >>, out |-> << >> ]

Init ==
    /\ fs_content = << >> /\ fs_pos = 0 /\ fs_open = FALSE
    /\ fs_eof = FALSE /\ fs_fail = FALSE
    /\ m_delimiter = ","
    /\ m_column_names = << >>
    /\ m_selected_cols = << >>
    /\ m_selected_mask = << >>
    /\ m_selected_cols_num = Uninit
    /\ m_column_values = << >> /\ m_line = << >> /\ m_column_offsets = << >>
    /\ errno = NoError
    /\ crashed = FALSE
    /\ call = NoCall
    /\ exhausted = "no"
    /\ note = NoNote
    /\ w_open = "closed"
    /\ w_delimiter = ","
    /\ m_header_written = FALSE
    /\ w_column_names = << >>
    /\ w_content = << >>
    /\ w_log = NoLog

-----------------------------------------------------------------------------
(* std::getline(m_filestream, line) *)

\* A getline that reads from the start again on a stream that is not good().
getline_rewinds(content, pos, eof, fail) ==
    LET from   == IF eof \/ fail THEN 0 ELSE pos
        nl     == find_first_of(content, NL, from)
        rest   == SubSeq(content, from + 1, Len(content))
    IN  IF nl # npos
        THEN [ ok |-> TRUE, line |-> SubSeq(content, from + 1, nl),
               pos |-> nl + 1, eof |-> FALSE, fail |-> FALSE ]
        ELSE [ ok |-> rest # << >>, line |-> rest, pos |-> Len(content),
               eof |-> TRUE, fail |-> rest = << >> ]

\* A stream that is not good() fails and sets failbit.  Otherwise the bytes up
\* to the next newline are extracted and the newline is dropped; reaching the
\* end of the file sets eofbit, and extracting nothing sets failbit.
getline(content, pos, eof, fail) ==
    LET nl   == find_first_of(content, NL, pos)
        rest == SubSeq(content, pos + 1, Len(content))
    IN  IF eof \/ fail
        THEN [ ok |-> FALSE, line |-> << >>, pos |-> pos, eof |-> eof, fail |-> TRUE ]
        ELSE IF nl # npos
        THEN [ ok |-> TRUE, line |-> SubSeq(content, pos + 1, nl),
               pos |-> nl + 1, eof |-> FALSE, fail |-> FALSE ]
        ELSE [ ok |-> rest # << >>, line |-> rest, pos |-> Len(content),
               eof |-> TRUE, fail |-> rest = << >> ]

-----------------------------------------------------------------------------
(* csv::reader: the catalog and the selection *)

\* std::find(m_column_names.begin(), m_column_names.end(), name): the 0-based
\* index of the first match, or the size of the catalog
find_name(names, name) ==
    LET hits == { i \in 0..(Len(names) - 1) : names[i + 1] = name }
    IN  IF hits = {} THEN Len(names) ELSE Min(hits)

\* reader::get_column_index
get_column_index(names, name) ==
    IF find_name(names, name) = Len(names) THEN npos ELSE find_name(names, name)

\* reader::select_next_col: the mask afterwards and the result
select_next_col(names, mask, arg) ==
    LET idx == find_name(names, arg)
    IN  IF idx = Len(names)
        THEN [ ok |-> FALSE, mask |-> mask ]
        ELSE [ ok |-> TRUE, mask |-> [ mask EXCEPT ![idx + 1] = TRUE ] ]

\* reader::select_cols_impl, and std::all_of over select_next_col: the
\* arguments are selected in turn up to the first one that fails
RECURSIVE select_cols_impl(_, _, _)
select_cols_impl(names, mask, args) ==
    IF args = << >> THEN [ ok |-> TRUE, mask |-> mask ]
    ELSE LET r == select_next_col(names, mask, Head(args))
         IN  IF r.ok THEN select_cols_impl(names, r.mask, Tail(args)) ELSE r

\* std::accumulate(m_selected_cols.begin(), m_selected_cols.end(), size_t(0))
accumulate(mask) == Cardinality({ i \in DOMAIN mask : mask[i] })

\* std::fill(m_selected_cols.begin(), m_selected_cols.end(), false)
fill_false(mask) == [ i \in DOMAIN mask |-> FALSE ]

\* The mask is aligned with the catalog: one position per column name.
mask_for_catalog(names) == [ i \in 1..Len(names) |-> FALSE ]

-----------------------------------------------------------------------------
(* csv::reader::row *)

\* detail::get_offsets: the offset at which every field of the line starts
get_offsets(line, delimiter) ==
    LET positions == shard_positions(line, delimiter)
    IN  [ i \in 1..Len(positions) |-> positions[i].begin ]

\* m_line_stream >> arg for an int, with the get position at offset: the stream
\* skips white space and the field boundaries, then reads an optional sign and
\* digits.  At the end of the line nothing is stored; without a digit 0 is
\* stored; either way the stream fails.
extract_int(line, delimiter, offset) ==
    LET boundary == isspace \cup { delimiter }
        start    == offset + run_length(line, offset, boundary)
        signed   == start < Len(line) /\ line[start + 1] \in { "+", "-" }
        first    == IF signed THEN start + 1 ELSE start
        ndigits  == run_length(line, first, isdigit)
        mag      == to_int(horner32(SubSeq(line, first + 1, first + ndigits),
                                    [ lo |-> 0, hi |-> 0 ]))
    IN  IF start >= Len(line) THEN [ fail |-> TRUE, stored |-> FALSE, val |-> 0 ]
        ELSE IF ndigits = 0 THEN [ fail |-> TRUE, stored |-> TRUE, val |-> 0 ]
        ELSE [ fail |-> FALSE, stored |-> TRUE,
               val |-> IF signed /\ line[start + 1] = "-" THEN 0 - mag ELSE mag ]

Unset == [ set |-> FALSE, val |-> 0 ]
Stored(v) == [ set |-> TRUE, val |-> v ]

\* row::read_next_col that does not move past the positions the mask leaves out
read_next_col_unmasked(line, delimiter, offsets, cols, idx, failed) ==
    IF idx >= Len(offsets)
    THEN [ ok |-> FALSE, idx |-> idx, failed |-> failed, dest |-> Unset ]
    ELSE LET x == extract_int(line, delimiter, offsets[idx + 1])
         IN  [ ok |-> TRUE, idx |-> idx + 1, failed |-> failed \/ x.fail,
               dest |-> IF failed \/ ~ x.stored THEN Unset ELSE Stored(x.val) ]

\* row::read_next_col: idx moves past the positions the mask leaves out; past
\* the last offset the read fails; else the stream is positioned at the offset
\* of idx and the destination is extracted (a stream that has failed extracts
\* nothing more).
read_next_col(line, delimiter, offsets, cols, idx, failed) ==
    LET skip == idx + run_length(cols, idx, { FALSE })
    IN  IF skip >= Len(offsets)
        THEN [ ok |-> FALSE, idx |-> skip, failed |-> failed, dest |-> Unset ]
        ELSE LET x == extract_int(line, delimiter, offsets[skip + 1])
             IN  [ ok |-> TRUE, idx |-> skip + 1, failed |-> failed \/ x.fail,
                   dest |-> IF failed \/ ~ x.stored THEN Unset ELSE Stored(x.val) ]

\* row::read_impl: the destinations are read in turn up to the first failure;
\* dests holds the destinations as the caller passed them
RECURSIVE read_impl(_, _, _, _, _, _, _, _)
read_impl(line, delimiter, offsets, cols, idx, failed, dests, k) ==
    IF k > Len(dests) THEN [ ok |-> TRUE, dests |-> dests ]
    ELSE LET r == read_next_col(line, delimiter, offsets, cols, idx, failed)
         IN  IF ~ r.ok THEN [ ok |-> FALSE, dests |-> dests ]
             ELSE read_impl(line, delimiter, offsets, cols, r.idx, r.failed,
                            IF r.dest.set THEN [ dests EXCEPT ![k] = r.dest ] ELSE dests,
                            k + 1)

\* row::read_cols(cols, args...)
read_cols(line, delimiter, offsets, cols, dests) ==
    IF Len(dests) > Len(offsets) THEN [ ok |-> FALSE, dests |-> dests ]
    ELSE IF Len(cols) # Len(offsets) THEN [ ok |-> FALSE, dests |-> dests ]
    ELSE read_impl(line, delimiter, offsets, cols, 0, FALSE, dests, 1)

-----------------------------------------------------------------------------
(* csv::reader: the operations *)

\* What shard_positions[col] yields for a col past the end of the vector: a
\* begin past the end of the line (substr throws), or a begin inside it.
OobShards == { [ begin |-> npos, count |-> 0 ],
               [ begin |-> 0, count |-> 0 ],
               [ begin |-> 0, count |-> 1 ] }

NoOob == [ begin |-> 0, count |-> 0 ]

reads_past_end(line, delimiter, select_col) ==
    \E i \in DOMAIN select_col : select_col[i] >= num_shards_of(line, delimiter)

\* reader::open
Open(exists, content, delimiter) ==
    /\ ~ crashed
    /\ m_delimiter' = delimiter
    /\ IF fs_open
       THEN \* the stream is open already: opening it again fails
            /\ fs_fail' = TRUE
            /\ call' = [ op |-> "open", ret |-> FALSE, arg |-> << >>, out |-> << >> ]
            /\ UNCHANGED << fs_content, fs_pos, fs_open, fs_eof, m_column_names,
                            m_selected_mask >>
       ELSE IF ~ exists
       THEN /\ fs_fail' = TRUE
            /\ call' = [ op |-> "open", ret |-> FALSE, arg |-> << >>, out |-> << >> ]
            /\ UNCHANGED << fs_content, fs_pos, fs_open, fs_eof, m_column_names,
                            m_selected_mask >>
       ELSE LET h     == getline(content, 0, FALSE, FALSE)   \* read_header
                names == split(h.line, delimiter)
            IN  /\ fs_open' = TRUE
                /\ fs_content' = content
                /\ fs_pos' = h.pos /\ fs_eof' = h.eof /\ fs_fail' = h.fail
                /\ m_column_names' = IF h.ok THEN names ELSE m_column_names
                /\ m_selected_mask' =
                       IF h.ok
                       THEN select_cols_impl(names, mask_for_catalog(names), names).mask
                       ELSE m_selected_mask
                /\ call' = [ op |-> "open", ret |-> h.ok, arg |-> << >>, out |-> << >> ]
    /\ note' = NoNote
    /\ UNCHANGED << m_selected_cols, m_selected_cols_num, rowVars, errno, crashed,
                    exhausted, writerVars >>

\* reader::select_cols(const std::vector<std::string>&)
SelectNames(names) ==
    /\ ~ crashed
    /\ LET r == select_cols_impl(m_column_names, m_selected_mask, names)
       IN  /\ m_selected_mask' = IF fs_open THEN r.mask ELSE m_selected_mask
           /\ call' = [ op |-> "select_names", ret |-> fs_open /\ r.ok,
                        arg |-> << >>, out |-> << >> ]
    /\ note' = NoNote
    /\ UNCHANGED << streamVars, m_delimiter, m_column_names, m_selected_cols,
                    m_selected_cols_num, rowVars, errno, crashed, exhausted,
                    writerVars >>

\* reader::select_cols(const Args&...)
SelectVariadic(args) ==
    /\ ~ crashed
    /\ LET r == select_cols_impl(m_column_names, fill_false(m_selected_mask), args)
       IN  /\ m_selected_mask' = IF fs_open THEN r.mask ELSE m_selected_mask
           /\ m_selected_cols_num' =
                  IF fs_open THEN accumulate(r.mask) ELSE m_selected_cols_num
           /\ call' = [ op |-> "select_variadic", ret |-> fs_open /\ r.ok,
                        arg |-> << >>, out |-> << >> ]
           /\ note' = IF fs_open /\ r.ok /\ Distinct(args)
                      THEN [ args |-> args, ret |-> TRUE ] ELSE NoNote
    /\ UNCHANGED << streamVars, m_delimiter, m_column_names, m_selected_cols,
                    rowVars, errno, crashed, exhausted, writerVars >>

\* select_cols(std::vector<size_t>) that stores the list whatever its indices
SelectIdx_unchecked(selected_cols) ==
    /\ ~ crashed
    /\ LET indexes_in_range ==
               \A i \in DOMAIN selected_cols : selected_cols[i] < Len(m_column_names)
       IN  /\ m_selected_cols' = IF fs_open THEN selected_cols ELSE m_selected_cols
           /\ call' = [ op |-> "select_idx", ret |-> fs_open /\ indexes_in_range,
                        arg |-> << >>, out |-> << >> ]
    /\ UNCHANGED << streamVars, m_delimiter, m_column_names, m_selected_mask,
                    m_selected_cols_num, rowVars, errno, crashed, exhausted,
                    note, writerVars >>

\* reader::select_cols(std::vector<size_t>)
SelectIdx(selected_cols) ==
    /\ ~ crashed
    /\ LET indexes_in_range ==
               \A i \in DOMAIN selected_cols : selected_cols[i] < Len(m_column_names)
       IN  /\ m_selected_cols' =
                  IF fs_open /\ indexes_in_range THEN selected_cols ELSE m_selected_cols
           /\ call' = [ op |-> "select_idx", ret |-> fs_open /\ indexes_in_range,
                        arg |-> << >>, out |-> << >> ]
    /\ UNCHANGED << streamVars, m_delimiter, m_column_names, m_selected_mask,
                    m_selected_cols_num, rowVars, errno, crashed, exhausted,
                    note, writerVars >>

\* reader::parse_next_line and row::parse_line: the stream and the row
\* afterwards.  g is the result of getline and oob the outcome of a read past
\* the end of shard_positions.
ParseNextLine(g, oob) ==
    LET parsed == split_select(g.line, m_delimiter, m_selected_cols, oob)
    IN  /\ fs_pos' = g.pos /\ fs_eof' = g.eof /\ fs_fail' = g.fail
        /\ crashed' = (g.ok /\ parsed.threw)
        /\ IF g.ok /\ ~ parsed.threw
           THEN /\ m_column_values' = parsed.shards
                /\ m_line' = g.line
                /\ m_column_offsets' = get_offsets(g.line, m_delimiter)
           ELSE UNCHANGED rowVars
        /\ UNCHANGED << fs_content, fs_open >>

OobChoices(g) ==
    IF g.ok /\ reads_past_end(g.line, m_delimiter, m_selected_cols)
    THEN OobShards ELSE { NoOob }

\* exhausted after a row advance that did or did not find the input at its end
advance(at_end) ==
    IF exhausted # "no" THEN "again" ELSE IF at_end THEN "yes" ELSE "no"

\* reader::next_row
NextRow ==
    /\ ~ crashed
    /\ LET g == getline(fs_content, fs_pos, fs_eof, fs_fail)
       IN  \E oob \in OobChoices(g) :
             /\ ParseNextLine(g, oob)
             /\ call' = [ op |-> "next_row",
                          ret |-> g.ok /\ ~ split_select(g.line, m_delimiter,
                                                          m_selected_cols, oob).threw,
                          arg |-> << >>, out |-> << >> ]
             /\ exhausted' = advance(fs_open /\ ~ g.ok)
    /\ UNCHANGED << readerVars, errno, note, writerVars >>

\* the outcomes of sizeof...(args) != m_selected_cols_num
arity_mismatch(n) ==
    IF m_selected_cols_num = Uninit THEN BOOLEAN ELSE { n # m_selected_cols_num }

\* reader::read_row(Args&...) with n destinations
ReadRow(n) ==
    /\ ~ crashed
    /\ LET dests == [ i \in 1..n |-> Unset ]
           g     == getline(fs_content, fs_pos, fs_eof, fs_fail)
       IN  \E mismatch \in arity_mismatch(n) :
             IF mismatch
             THEN /\ call' = [ op |-> "read_row", ret |-> FALSE, arg |-> << >>,
                               out |-> dests ]
                  /\ UNCHANGED << streamVars, rowVars, crashed, exhausted >>
             ELSE IF ~ fs_open \/ fs_eof
             THEN /\ call' = [ op |-> "read_row", ret |-> FALSE, arg |-> << >>,
                               out |-> dests ]
                  /\ exhausted' = advance(fs_open)
                  /\ UNCHANGED << streamVars, rowVars, crashed >>
             ELSE \E oob \in OobChoices(g) :
                  LET threw == split_select(g.line, m_delimiter, m_selected_cols,
                                            oob).threw
                      r     == read_cols(g.line, m_delimiter,
                                         get_offsets(g.line, m_delimiter),
                                         m_selected_mask, dests)
                  IN  /\ ParseNextLine(g, oob)
                      /\ exhausted' = advance(~ g.ok)
                      /\ call' = [ op |-> "read_row",
                                   ret |-> g.ok /\ ~ threw /\ r.ok, arg |-> << >>,
                                   out |-> IF g.ok /\ ~ threw THEN r.dests ELSE dests ]
    /\ UNCHANGED << readerVars, errno, note, writerVars >>

-----------------------------------------------------------------------------
(* The files and the arguments of the calls *)

NameChars  == << "a", "b", "c", "d", "e", "f", "g", "h" >>
DigitChars == << "1", "2", "3", "4", "5", "6", "7", "8", "9" >>

\* the header of n distinct column names a, b, c, ...
Header(n) == [ i \in 1..n |-> << NameChars[i] >> ]

\* the narrowest and the widest header
Headers == { Header(1), Header(MaxCols) }

\* row r with m fields: the first row is 1,2,3, the second 4,5,6, ...
DataRow(r, m) == [ c \in 1..m |-> << DigitChars[(((r - 1) * 3 + c - 1) % 9) + 1] >> ]

\* a file: the header line and the data lines, which have as many fields as the
\* header or one less, joined by commas; the last line may lack its newline
FileOf(header, widths, newline_at_end) ==
    LET lines == << Join(header, ",") >> \o
                 [ r \in 1..Len(widths) |-> Join(DataRow(r, widths[r]), ",") ]
    IN  Join(lines, NL) \o (IF newline_at_end THEN << NL >> ELSE << >>)

FilesOf(h) ==
    { FileOf(h, w, t) : w \in SeqsOf({ Len(h) - 1, Len(h) }, 0, MaxRows),
                        t \in BOOLEAN }

Files == { << >> } \cup UNION { FilesOf(h) : h \in Headers }

\* the name lists a caller may pass: the first and the last column of the
\* widest header (the last is unknown to a narrower one) alone, in both orders
\* and twice, and lists that hold a name no header has
FirstName   == << NameChars[1] >>
LastName    == << NameChars[MaxCols] >>
UnknownName == << "z" >>

KnownToWidest == { << FirstName >>, << LastName >>, << LastName, FirstName >>,
                   << FirstName, LastName >>, << FirstName, FirstName >> }
InNoHeader    == { << UnknownName >>, << FirstName, UnknownName >>,
                   << UnknownName, FirstName >> }

\* the index lists a caller may pass: no column, the first or the last column
\* of the widest header (the last is past the end of a narrower one), the list
\* last, first, last, and lists that hold an index past the end of every
\* header, alone and next to a valid one
ValidForWidest  == { << >>, << 0 >>, << MaxCols - 1 >>,
                     << MaxCols - 1, 0, MaxCols - 1 >> }
PastEveryHeader == { << MaxCols >>, << 0, MaxCols >>, << MaxCols, 0 >> }

NameLists  == KnownToWidest \cup InNoHeader
IndexLists == ValidForWidest \cup PastEveryHeader

-----------------------------------------------------------------------------
(* The reader driven through the interface of csv_reader.h *)

\* A reader that is open takes no file from a further open.
OpenAny ==
    \/ ~ fs_open /\ \E content \in Files : Open(TRUE, content, ",")
    \/ ~ fs_open /\ Open(FALSE, << >>, ",")
    \/ fs_open /\ Open(TRUE, << >>, ",")

Next ==
    \/ OpenAny
    \/ \E names \in NameLists : SelectNames(names)
    \/ \E args \in NameLists : SelectVariadic(args)
    \/ NextRow
    \/ \E n \in 1..MaxArgs : ReadRow(n)

Spec == Init /\ [][Next]_vars

(* The reader driven through the operations of csv_reader.cpp *)

NextCopy ==
    \/ OpenAny
    \/ \E selected_cols \in IndexLists : SelectIdx(selected_cols)
    \/ NextRow

SpecCopy == Init /\ [][NextCopy]_vars

-----------------------------------------------------------------------------
(* csv::writer, src/include/csv_writer.h and src/src/csv_writer.cpp *)

\* m_filestream << ...: a stream that has failed drops what it is given
put(content, text) == IF w_open = "open" THEN content \o text ELSE content

\* the header as writer::write_header puts it out
header_text(names, delimiter) == Join(names, ",") \o << NL >>

\* the row as writer::write_row_impl and write_row put it out
row_text(values, delimiter) == Join(values, ",") \o << NL >>

\* writer::open: opening an open stream fails and the stream says so
WOpen(delimiter) ==
    /\ m_header_written' = FALSE
    /\ w_delimiter' = delimiter
    /\ IF w_open = "closed"
       THEN w_open' = "open" /\ w_content' = << >> /\ w_log' = NoLog
       ELSE w_open' = "failed" /\ UNCHANGED << w_content, w_log >>
    /\ call' = [ op |-> "w_open", ret |-> TRUE, arg |-> << >>, out |-> << >> ]
    /\ UNCHANGED << w_column_names, streamVars, readerVars, rowVars, errno,
                    crashed, exhausted, note >>

\* writer::set_column_names
SetColumnNames(names) ==
    /\ w_column_names' = names
    /\ call' = [ op |-> "set_column_names", ret |-> TRUE, arg |-> << >>,
                 out |-> << >> ]
    /\ UNCHANGED << w_open, w_delimiter, m_header_written, w_content, w_log,
                    streamVars, readerVars, rowVars, errno, crashed, exhausted,
                    note >>

\* writer::write_row(const Args&...)
WriteRow(values) ==
    LET refused  == w_open = "closed" \/ w_column_names = << >>
        header   == IF m_header_written THEN << >>
                    ELSE header_text(w_column_names, w_delimiter)
        arity_ok == Len(values) = Len(w_column_names)
    IN  /\ m_header_written' = (m_header_written \/ ~ refused)
        /\ w_content' =
               IF refused THEN w_content
               ELSE IF ~ arity_ok THEN put(w_content, header)
               ELSE put(w_content, header \o row_text(values, w_delimiter))
        /\ w_log' =
               IF refused \/ w_open # "open" THEN w_log
               ELSE [ header |-> IF m_header_written THEN w_log.header
                                 ELSE w_column_names,
                      rows   |-> IF arity_ok THEN Append(w_log.rows, values)
                                 ELSE w_log.rows ]
        /\ call' = [ op |-> "write_row", ret |-> ~ refused /\ arity_ok,
                     arg |-> << >>, out |-> << >> ]
        /\ UNCHANGED << w_open, w_delimiter, w_column_names, streamVars,
                        readerVars, rowVars, errno, crashed, exhausted, note >>

Delims == { ",", ";" }

WriterStrings == { << "x" >>, << "y" >>, << ";" >> }
WriterRows    == SeqsOf(WriterStrings, 1, MaxFields)

\* The writer writes a file, then a reader is opened on it with the writer's
\* delimiter and reads it.
NextRoundTrip ==
    \/ ~ fs_open /\ \E delimiter \in Delims : WOpen(delimiter)
    \/ ~ fs_open /\ \E names \in WriterRows : SetColumnNames(names)
    \/ /\ ~ fs_open /\ Len(w_log.rows) < MaxRows
       /\ \E values \in WriterRows : WriteRow(values)
    \/ ~ fs_open /\ w_open = "open" /\ Open(TRUE, w_content, w_delimiter)
    \/ fs_open /\ NextRow

SpecRoundTrip == Init /\ [][NextRoundTrip]_vars

-----------------------------------------------------------------------------
(* The line splitter and the value converter called on their own *)

SplitChars == { "a", ",", ";" }
Lines      == SeqsOf(SplitChars, 0, MaxLineLen)

Split(line, delimiter) ==
    /\ call' = [ op |-> "split", ret |-> TRUE, arg |-> << line, delimiter >>,
                 out |-> split(line, delimiter) ]
    /\ UNCHANGED << streamVars, readerVars, rowVars, errno, crashed, exhausted,
                    note, writerVars >>

NextSplit == \E line \in Lines, delimiter \in Delims : Split(line, delimiter)

SpecSplit == Init /\ [][NextSplit]_vars

ConvChars == { "4", "2", "x", "-", " " }
Nines     == [ i \in 1..20 |-> "9" ]
LongTexts == { Nines, << "-" >> \o Nines }
ConvTexts == SeqsOf(ConvChars, 0, MaxTextLen) \cup LongTexts

Convert(str) ==
    LET r == string_to_value(str, errno)
    IN  /\ call' = [ op |-> "string_to_value", ret |-> r.ret, arg |-> str,
                     out |-> << r.val >> ]
        /\ errno' = r.errno
        /\ UNCHANGED << streamVars, readerVars, rowVars, crashed, exhausted,
                        note, writerVars >>

NextConv == \E str \in ConvTexts : Convert(str)

SpecConv == Init /\ [][NextConv]_vars

(* row::read_cols called on a row of its own *)

\* the lines of the row: 1 to MaxCols numbers, no text at all, and a line whose
\* last field is empty
RowLines == { Join(DataRow(1, m), ",") : m \in 1..MaxCols }
            \cup { << >>, << "1", "," >> }
Masks    == SeqsOf(BOOLEAN, 0, MaxCols)

\* m_row.parse_line(line) and then m_row.read_cols(cols, d1, ..., dn)
ReadCols(line, cols, n) ==
    LET r == read_cols(line, ",", get_offsets(line, ","), cols,
                       [ i \in 1..n |-> Unset ])
    IN  /\ m_line' = line
        /\ m_column_offsets' = get_offsets(line, ",")
        /\ call' = [ op |-> "read_cols", ret |-> r.ok, arg |-> << line, cols >>,
                     out |-> r.dests ]
        /\ UNCHANGED << streamVars, readerVars, m_column_values, errno, crashed,
                        exhausted, note, writerVars >>

NextCols ==
    \E line \in RowLines, cols \in Masks, n \in 1..MaxArgs : ReadCols(line, cols, n)

SpecCols == Init /\ [][NextCols]_vars

-----------------------------------------------------------------------------
(* C1 *)

RECURSIVE SumLen(_)
SumLen(fields) == IF fields = << >> THEN 0 ELSE Len(Head(fields)) + SumLen(Tail(fields))

DelimiterCount(line, delimiter) ==
    Cardinality({ i \in DOMAIN line : line[i] = delimiter })

\* C1: a line with k delimiters splits into exactly k+1 fields, left to right
\* (the fields joined by the delimiter give the line back, and no field holds a
\* delimiter), and the field lengths plus k add up to the length of the line.
C1_SplitFields ==
    call.op = "split" =>
        LET line   == call.arg[1]
            d      == call.arg[2]
            k      == DelimiterCount(line, d)
            fields == call.out
        IN  /\ Len(fields) = k + 1
            /\ SumLen(fields) + k = Len(line)
            /\ Join(fields, d) = line
            /\ \A i \in DOMAIN fields : DelimiterCount(fields[i], d) = 0
            /\ (k = 0 => fields = << line >>)

\* a line with adjacent delimiters and a delimiter at its end has been split
C1_Witness ==
    /\ call.op = "split"
    /\ DelimiterCount(call.arg[1], call.arg[2]) >= 2
    /\ call.arg[1][Len(call.arg[1])] = call.arg[2]
    /\ \E i \in DOMAIN call.out : call.out[i] = << >>
    /\ \E i \in DOMAIN call.out : call.out[i] # << >>

-----------------------------------------------------------------------------
(* C6 *)

\* The text is an optional sign and at least one digit, after optional leading
\* white space as the C library's conversions allow it.
IsBase10(str) ==
    LET ws    == run_length(str, 0, isspace)
        rest  == SubSeq(str, ws + 1, Len(str))
        body  == IF rest # << >> /\ Head(rest) \in { "+", "-" } THEN Tail(rest) ELSE rest
    IN  body # << >> /\ \A i \in DOMAIN body : body[i] \in isdigit

InIntRange(str) ==
    LET ws    == run_length(str, 0, isspace)
        rest  == SubSeq(str, ws + 1, Len(str))
        neg   == rest # << >> /\ Head(rest) = "-"
        body  == IF rest # << >> /\ Head(rest) \in { "+", "-" } THEN Tail(rest) ELSE rest
    IN  digits_le(strip_zeros(body), IF neg THEN INT_MIN_DIGITS ELSE INT_MAX_DIGITS)

\* C6: an integer conversion succeeds exactly when the whole text is one base-10
\* number within range; "42" gives 42, "42x" fails and "" fails.
C6_ConversionSuccess ==
    call.op = "string_to_value" =>
        /\ call.ret <=> (IsBase10(call.arg) /\ InIntRange(call.arg))
        /\ (call.arg = << "4", "2" >> => call.ret /\ call.out = << 42 >>)
        /\ (call.arg = << "4", "2", "x" >> => ~ call.ret)
        /\ (call.arg = << >> => ~ call.ret)

-----------------------------------------------------------------------------
(* What the claims about the reader refer to *)

\* the fields of a line, by cutting at the first delimiter again and again
RECURSIVE FieldsOf(_, _)
FieldsOf(line, delimiter) ==
    IF \A i \in DOMAIN line : line[i] # delimiter THEN << line >>
    ELSE LET p == Min({ i \in DOMAIN line : line[i] = delimiter })
         IN  << SubSeq(line, 1, p - 1) >> \o
             FieldsOf(SubSeq(line, p + 1, Len(line)), delimiter)

\* the text of column col (0-based) of a line; a column the line lacks has none
ColumnText(line, delimiter, col) ==
    IF col < Len(FieldsOf(line, delimiter))
    THEN FieldsOf(line, delimiter)[col + 1] ELSE << >>

\* the line the stream will hand out next, if there is one
HasNextLine == fs_open /\ ~ fs_eof /\ ~ fs_fail /\ fs_pos < Len(fs_content)

NextLine ==
    LET rest == SubSeq(fs_content, fs_pos + 1, Len(fs_content))
    IN  IF \E i \in DOMAIN rest : rest[i] = NL
        THEN SubSeq(rest, 1, Min({ i \in DOMAIN rest : rest[i] = NL }) - 1)
        ELSE rest

\* the number a field of digits stands for
RECURSIVE DigitsValue(_)
DigitsValue(ds) ==
    IF ds = << >> THEN 0
    ELSE 10 * DigitsValue(SubSeq(ds, 1, Len(ds) - 1)) + DigitVal(ds[Len(ds)])

\* every field of the line is a number: one digit or more
AllNumeric(line, delimiter) ==
    \A i \in DOMAIN FieldsOf(line, delimiter) :
        /\ FieldsOf(line, delimiter)[i] # << >>
        /\ \A j \in DOMAIN FieldsOf(line, delimiter)[i] :
               FieldsOf(line, delimiter)[i][j] \in isdigit

InCatalog(name) == \E i \in DOMAIN m_column_names : m_column_names[i] = name

\* the 0-based position of the first column of that name
ColumnOf(name) == Min({ i \in DOMAIN m_column_names : m_column_names[i] = name }) - 1

SelectionVars == << m_selected_cols, m_selected_mask, m_selected_cols_num >>

-----------------------------------------------------------------------------
(* C2 *)

\* C2: after a variadic select_cols of distinct names that returned true,
\* read_row delivers the fields in the order the names were given: with header
\* a,b,c, row 1,2,3 and select_cols("c","a"), read_row(x, y) returns true with
\* x = 3 and y = 1.
C2_ReadInGivenOrder ==
    [][ \A n \in 1..MaxArgs :
          ( /\ note.ret /\ Len(note.args) = n /\ Distinct(note.args)
            /\ HasNextLine
            /\ Len(FieldsOf(NextLine, m_delimiter)) = Len(m_column_names)
            /\ AllNumeric(NextLine, m_delimiter)
            /\ ReadRow(n) )
          => /\ call'.ret
             /\ \A i \in 1..n :
                  call'.out[i] = Stored(DigitsValue(
                      ColumnText(NextLine, m_delimiter, ColumnOf(note.args[i])))) ]_vars

-----------------------------------------------------------------------------
(* C3 *)

\* C3: after select_cols with an index list s of indices below the catalog
\* length, every row parsed holds exactly len(s) fields, the i-th being the
\* text of column s[i] of the line.
C3_RowFollowsIndexList ==
    [][ ( /\ fs_open
          /\ HasNextLine
          /\ NextRow )
        => /\ ~ crashed'
           /\ call'.ret
           /\ Len(m_column_values') = Len(m_selected_cols)
           /\ \A i \in DOMAIN m_selected_cols :
                m_column_values'[i] = ColumnText(NextLine, m_delimiter, m_selected_cols[i]) ]_vars

-----------------------------------------------------------------------------
(* C4 *)

HasBadIndex(s) == \E i \in DOMAIN s : s[i] >= Len(m_column_names)

\* C4: on an open reader no select_cols with an index list that holds an index
\* at or past the catalog length returns true, and a select_cols with an index
\* list that returns false leaves the selection and the catalog as they were; a row parsed afterwards holds, for every selected column the line has,
\* the text of that column, in the order of the selection in force.
C4_BadIndexKeepsSelection ==
    [][ /\ (fs_open /\ call'.op = "select_idx" /\ call'.ret)
           => ~ \E s \in IndexLists : HasBadIndex(s) /\ SelectIdx(s)
        /\ (fs_open /\ call'.op = "select_idx" /\ ~ call'.ret)
           => UNCHANGED SelectionVars /\ UNCHANGED m_column_names
        /\ ( HasNextLine /\ call'.op = "next_row" /\ NextRow )
           => \/ crashed' /\ reads_past_end(NextLine, m_delimiter, m_selected_cols)
              \/ /\ ~ crashed'
                 /\ Len(m_column_values') = Len(m_selected_cols)
                 /\ \A i \in DOMAIN m_selected_cols :
                      m_selected_cols[i] < Len(FieldsOf(NextLine, m_delimiter))
                      => m_column_values'[i] =
                           ColumnText(NextLine, m_delimiter, m_selected_cols[i]) ]_vars

\* a selection had been made, a select_cols with a bad index has returned false
\* and the selection is still there
C4_Witness ==
    /\ call.op = "select_idx" /\ ~ call.ret
    /\ fs_open
    /\ Len(m_column_names) = MaxCols
    /\ m_selected_cols = << MaxCols - 1, 0, MaxCols - 1 >>

-----------------------------------------------------------------------------
(* C5 *)

HasUnknownName(names) == \E i \in DOMAIN names : ~ InCatalog(names[i])

\* C5: on an open reader a select_cols by names, variadic or by a list, with a
\* name that is not in the catalog returns false and leaves the selected
\* columns and the selected-column count (once it has a value) as they were.
C5_UnknownNameKeepsSelection ==
    [][ \A names \in NameLists :
          ( /\ fs_open /\ HasUnknownName(names)
            /\ (SelectVariadic(names) \/ SelectNames(names)) )
          => /\ call'.ret = FALSE
             /\ UNCHANGED m_selected_mask
             /\ m_selected_cols_num # Uninit => UNCHANGED m_selected_cols_num ]_vars

-----------------------------------------------------------------------------
(* C7 *)

\* C7: once a row advance has returned false for want of a data line, every
\* later next_row and read_row returns false and changes neither the catalog
\* nor the selection.
C7_ExhaustionIsTerminal ==
    [][ ( /\ exhausted # "no"
          /\ call'.op \in { "next_row", "read_row" }
          /\ (NextRow \/ \E n \in 1..MaxArgs : ReadRow(n)) )
        => /\ call'.ret = FALSE
           /\ ~ crashed'
           /\ UNCHANGED m_column_names
           /\ UNCHANGED SelectionVars ]_vars

\* the data line of a file has been read, a row advance has failed at the end
\* of the file, and one more row advance has been made
C7_Witness ==
    /\ exhausted = "again"
    /\ call.op \in { "next_row", "read_row" } /\ ~ call.ret
    /\ Len(m_column_names) = MaxCols
    /\ m_line # << >>
    /\ fs_pos = Len(fs_content)

-----------------------------------------------------------------------------
(* C8 *)

\* the fields of the row the reader holds: the texts of its line from each
\* recorded offset up to the next delimiter
RowFields ==
    [ i \in DOMAIN m_column_offsets |->
        LET rest == SubSeq(m_line, m_column_offsets[i] + 1, Len(m_line))
        IN  Head(FieldsOf(rest, m_delimiter)) ]

Holds(text, ch) == \E i \in DOMAIN text : text[i] = ch

\* the writer has written a header and one row of as many strings, none of
\* which holds the delimiter or a newline, and the reader is open on the file
RoundTripCase ==
    /\ fs_open /\ fs_content = w_content /\ m_delimiter = w_delimiter
    /\ Len(w_log.rows) = 1
    /\ Len(w_log.rows[1]) = Len(w_log.header)
    /\ \A i \in DOMAIN w_log.header :
         /\ ~ Holds(w_log.header[i], w_delimiter) /\ ~ Holds(w_log.header[i], NL)
         /\ ~ Holds(w_log.rows[1][i], w_delimiter) /\ ~ Holds(w_log.rows[1][i], NL)

\* C8: for every delimiter d, a header of n names and one row of n strings
\* written with d and read back with d give the n names as the catalog and the
\* n strings as the row.
C8_RoundTrip ==
    RoundTripCase =>
        /\ call.op = "open" => call.ret /\ m_column_names = w_log.header
        /\ (call.op = "next_row" /\ exhausted = "no")
             => call.ret /\ RowFields = w_log.rows[1]

-----------------------------------------------------------------------------
(* C9 *)

AllSelected == [ i \in DOMAIN m_column_names |-> TRUE ]

\* C9: after a successful open the selection is every column of the catalog and
\* the count read_row compares its arity to is the catalog length, so that the
\* first read_row with that many destinations on a line of that many fields
\* returns true and fills them in header order.
C9_DefaultSelection ==
    [][ /\ ( \E content \in Files : Open(TRUE, content, ",") /\ call'.ret )
           => /\ m_selected_mask' = AllSelected'
              /\ m_selected_cols_num' = Len(m_column_names')
        /\ ( /\ call.op = "open" /\ call.ret
             /\ HasNextLine
             /\ Len(FieldsOf(NextLine, m_delimiter)) = Len(m_column_names)
             /\ AllNumeric(NextLine, m_delimiter)
             /\ Len(m_column_names) <= MaxArgs
             /\ ReadRow(Len(m_column_names)) )
           => /\ call'.ret
              /\ call'.out = [ i \in DOMAIN m_column_names |->
                                 Stored(DigitsValue(
                                     ColumnText(NextLine, m_delimiter, i - 1))) ] ]_vars

-----------------------------------------------------------------------------
(* C10 *)

\* C10: read_row with a number of destinations other than the number of
\* selected columns returns false, writes no destination and consumes no line
\* (stated for a reader whose selected-column count has been stored).
C10_ArityMismatch ==
    [][ \A n \in 1..MaxArgs :
          ( /\ fs_open
            /\ m_selected_cols_num # Uninit
            /\ n # accumulate(m_selected_mask)
            /\ ReadRow(n) )
          => /\ call'.ret = FALSE
             /\ \A i \in 1..n : call'.out[i] = Unset
             /\ UNCHANGED fs_pos
             /\ UNCHANGED rowVars ]_vars

-----------------------------------------------------------------------------
(* C11 *)

\* C11: the result of a conversion depends on its own text only: a text that is
\* one base-10 number within range, such as "42", converts with success
\* whatever the conversions before it were given, also after a conversion that
\* failed on a text out of range.
C11_ResultFromOwnText ==
    [][ \A str \in ConvTexts :
          ( /\ IsBase10(str) /\ InIntRange(str)
            /\ Convert(str) )
          => call'.ret ]_vars

-----------------------------------------------------------------------------
(* C12 *)

\* the positions (1-based) a mask selects, in ascending order
TruePositions(cols) ==
    LET S == { i \in DOMAIN cols : cols[i] }
    IN  [ k \in 1..Cardinality(S) |->
            CHOOSE i \in S : Cardinality({ j \in S : j < i }) = k - 1 ]

\* C12: read_cols(mask, d1..dn) on a row of m fields returns false and leaves
\* every destination alone when n > m or the mask is not m long; otherwise it
\* returns true exactly when the mask selects n positions or more, and on a row
\* of numbers the i-th destination holds the field at the i-th selected
\* position while the destinations past the last selected position are left
\* alone.
C12_ReadColsFollowsMask ==
    call.op = "read_cols" =>
        LET line  == call.arg[1]
            cols  == call.arg[2]
            n     == Len(call.out)
            m     == Len(FieldsOf(line, ","))
            trues == TruePositions(cols)
        IN  /\ Len(m_column_offsets) = m
            /\ IF n > m \/ Len(cols) # m
               THEN ~ call.ret /\ \A i \in 1..n : call.out[i] = Unset
               ELSE /\ call.ret <=> Len(trues) >= n
                    /\ AllNumeric(line, ",") =>
                         \A i \in 1..n :
                           call.out[i] =
                             IF i <= Len(trues)
                             THEN Stored(DigitsValue(
                                      ColumnText(line, ",", trues[i] - 1)))
                             ELSE Unset

\* a mask that leaves out the first field and selects two later ones has been
\* read into two destinations
C12_Witness ==
    /\ call.op = "read_cols" /\ call.ret
    /\ Len(call.out) = 2
    /\ call.arg[2] = << FALSE, TRUE, TRUE >>
    /\ call.out = << Stored(2), Stored(3) >>

-----------------------------------------------------------------------------
(* C13 *)

\* C13: whenever a row advance takes a line from the stream, every index of the
\* selection in force, which select_cols has accepted, is smaller than the
\* field count of that line (its delimiter count plus one), so that no lookup
\* in the table of field positions is past its end.
C13_LookupWithinFieldCount ==
    [][ ( HasNextLine /\ call'.op = "next_row" /\ NextRow )
        => /\ \A i \in DOMAIN m_selected_cols :
                /\ m_selected_cols[i] < Len(m_column_names)
                /\ m_selected_cols[i] < DelimiterCount(NextLine, m_delimiter) + 1
           /\ ~ crashed' ]_vars

====
